---- MODULE Spec2Model ----
(***************************************************************************)
(* Model of geopy/geocoders/what3words.py: the What3Words geocoder.        *)
(*                                                                         *)
(* Text is modelled as a sequence of characters, each character a          *)
(* one-character TLA+ string.  Three characters that are not ASCII or not  *)
(* printable carry a name instead: "LF" is the newline U+000A, "e'" is the *)
(* letter U+00E9 (e with acute accent) and "^2" is U+00B2 (superscript     *)
(* two).  A URL is a sequence of tokens: the pieces the code joins, the    *)
(* characters of the parameter values and the %XX escapes of urlencode.    *)
(***************************************************************************)
EXTENDS Integers, Sequences, FiniteSets, TLC

VARIABLES client, op, arg_key, arg_base_ok, query, point, lang, exactly_one,
          valid, sent, reply, outcome

vars == <<client, op, arg_key, arg_base_ok, query, point, lang, exactly_one,
          valid, sent, reply, outcome>>

\* Longest phrase typed in the validation-only specification SpecQ.
MaxQueryLen == 6

-----------------------------------------------------------------------------
(* Characters and the classes the regular expression and urlencode use.    *)

\* The ASCII letters, lower case and upper case in the same order.
LowerCase ==
    <<"a", "b", "c", "d", "e", "f", "g", "h", "i", "j", "k", "l", "m",
      "n", "o", "p", "q", "r", "s", "t", "u", "v", "w", "x", "y", "z">>
UpperCase ==
    <<"A", "B", "C", "D", "E", "F", "G", "H", "I", "J", "K", "L", "M",
      "N", "O", "P", "Q", "R", "S", "T", "U", "V", "W", "X", "Y", "Z">>
AsciiLetters == {LowerCase[i] : i \in 1..26} \cup {UpperCase[i] : i \in 1..26}

\* Unicode letters (category L*): str.isalpha().
Letters == AsciiLetters \cup {"e'"}

\* Unicode decimal digits (category Nd): what \d matches under re.U.
DecimalDigits == {"0", "1", "2", "3", "4", "5", "6", "7", "8", "9"}

\* Numeric characters that are not decimal digits (category No):
\* str.isalnum() holds, \d does not match.
OtherNumerics == {"^2"}

\* What \w matches under re.U: alphanumerics and the underscore.
IsWordChar(c) == c \in Letters \cup DecimalDigits \cup OtherNumerics \cup {"_"}

\* What \d matches under re.U.
IsDecimalDigit(c) == c \in DecimalDigits

\* The character class [^\W\d\_] of multiple_word_re.
WordClass(c) == IsWordChar(c) /\ ~IsDecimalDigit(c) /\ c # "_"

\* s[i..j] is a non-empty run of the class [^\W\d\_], the regex's [^\W\d\_]+ .
ClassRun(s, i, j) == i <= j /\ \A x \in i..j : WordClass(s[x])

\* $ without re.MULTILINE: the end of the string, or just before a newline
\* that is the last character of the string.
DollarAt(s, k) == k = Len(s) \/ (k = Len(s) - 1 /\ s[Len(s)] = "LF")

\* multiple_word_re.match(query): the pattern matched from the first
\* character on; a backtracking matcher succeeds exactly when some split
\* of the string fits the pattern.
multiple_word_re(s) ==
    \E i \in 1..Len(s) : \E j \in 1..Len(s) : \E k \in 1..Len(s) :
        /\ ClassRun(s, 1, i)
        /\ i + 1 <= Len(s) /\ s[i + 1] = "."
        /\ ClassRun(s, i + 2, j)
        /\ j + 1 <= Len(s) /\ s[j + 1] = "."
        /\ ClassRun(s, j + 2, k)
        /\ DollarAt(s, k)

\* What3Words._check_query
_check_query(s) == IF ~multiple_word_re(s) THEN FALSE ELSE TRUE

-----------------------------------------------------------------------------
(* Text helpers of the standard library the module calls.                  *)

RECURSIVE Flatten(_)
\* The concatenation of a sequence of sequences.
Flatten(ss) == IF ss = <<>> THEN <<>> ELSE Head(ss) \o Flatten(Tail(ss))

\* str.lower() of one character.
LowerChar(c) ==
    IF \E i \in 1..26 : UpperCase[i] = c
    THEN LowerCase[CHOOSE i \in 1..26 : UpperCase[i] = c]
    ELSE c

\* str.lower()
lower(s) == [i \in 1..Len(s) |-> LowerChar(s[i])]

\* The characters quote_plus never escapes: ASCII letters and digits and _.-~
AlwaysSafe == AsciiLetters \cup DecimalDigits \cup {"_", ".", "-", "~"}

\* The %XX escapes of the UTF-8 bytes of a character that is not safe.
PercentEscape(c) ==
    CASE c = ","  -> <<"%2C">>
      [] c = "&"  -> <<"%26">>
      [] c = "+"  -> <<"%2B">>
      [] c = "/"  -> <<"%2F">>
      [] c = "="  -> <<"%3D">>
      [] c = "?"  -> <<"%3F">>
      [] c = ":"  -> <<"%3A">>
      [] c = "#"  -> <<"%23">>
      [] c = "%"  -> <<"%25">>
      [] c = "LF" -> <<"%0A">>
      [] c = "CR" -> <<"%0D">>
      [] c = "TAB" -> <<"%09">>
      [] c = "e'" -> <<"%C3", "%A9">>
      [] c = "^2" -> <<"%C2", "%B2">>

\* urllib.parse.quote_plus of one character: a space becomes a plus sign.
QuoteChar(c) ==
    IF c \in AlwaysSafe THEN <<c>>
    ELSE IF c = " " THEN <<"+">>
    ELSE PercentEscape(c)

\* urllib.parse.quote_plus, the quoting urlencode applies to every value.
quote_plus(s) == Flatten([i \in 1..Len(s) |-> QuoteChar(s[i])])

RECURSIVE JoinAmp(_)
\* "&".join(parts)
JoinAmp(parts) ==
    IF parts = <<>> THEN <<>>
    ELSE IF Len(parts) = 1 THEN parts[1]
    ELSE parts[1] \o <<"&">> \o JoinAmp(Tail(parts))

\* urllib.parse.urlencode of an ordered mapping given as a sequence of
\* <<name, value>> pairs: name=quote_plus(value) joined by "&", in the
\* mapping's order.  The names used here are ASCII words, left as they are.
urlencode(params) ==
    JoinAmp([i \in 1..Len(params) |->
                <<params[i][1], "=">> \o quote_plus(params[i][2])])

-----------------------------------------------------------------------------
(* The client object.                                                      *)

\* API keys handed to the constructor: None, the empty string, a key.
NoneKey == [none |-> TRUE, s |-> <<>>]
EmptyKey == [none |-> FALSE, s |-> <<>>]
SomeKey == [none |-> FALSE, s |-> <<"k", "&", "1">>]
Keys == {NoneKey, EmptyKey, SomeKey}

\* str(v) as urlencode applies it to a value that is not a string.
str(key) == IF key.none THEN <<"N", "o", "n", "e">> ELSE key.s

geocode_path == <<"/v2/forward">>
reverse_path == <<"/v2/reverse">>

\* '%s://%s%s' % (self.scheme, domain, path) with scheme 'https'.
api_url(path) == <<"https", "://", "api.what3words.com">> \o path

NoClient == [exists |-> FALSE, api_key |-> NoneKey,
             geocode_api |-> <<>>, reverse_api |-> <<>>]

\* The values no response, no Location and no outcome stand for.
NoJV == [t |-> "null", n |-> 0, s |-> <<>>]
NoStatus == [present |-> FALSE, has_code |-> FALSE, code |-> 0, message |-> ""]
NoJson == [status |-> NoStatus, words |-> <<>>, has_geometry |-> FALSE,
           lat |-> NoJV, lng |-> NoJV]
NoLoc == [label |-> <<>>, point |-> <<NoJV, NoJV>>, raw |-> NoJson]
NoOutcome == [kind |-> "none", exc |-> "", msg |-> <<>>, loc |-> NoLoc,
              items |-> <<>>]
Raise(exc, msg) == [kind |-> "raise", exc |-> exc, msg |-> msg,
                    loc |-> NoLoc, items |-> <<>>]

\* What3Words.__init__: the base constructor runs first and raises a
\* configuration error on malformed transport settings (base_ok false);
\* then the key is stored as given and the two endpoints are formed.
construct(api_key, base_ok) ==
    IF ~base_ok
    THEN [client |-> NoClient, outcome |-> Raise("ConfigurationError", <<>>)]
    ELSE [client |-> [exists |-> TRUE, api_key |-> api_key,
                      geocode_api |-> api_url(geocode_path),
                      reverse_api |-> api_url(reverse_path)],
          outcome |-> NoOutcome]

-----------------------------------------------------------------------------
(* JSON values as the decoder delivers them.  A bool holds 1 or 0 in n, an *)
(* int its value in n and a string its text in s.  An int beyond the       *)
(* integers at hand holds its decimal digits in s and its sign, 1 or -1,   *)
(* in n.  A float is held as a decimal that stands for the double nearest  *)
(* to it: s holds the significant digits, after a "-" when the sign bit is *)
(* set, without leading or trailing zeros, and n the power of ten that     *)
(* multiplies them: 51.5 is the digits 515 with n = -1, 100.0 the digit 1  *)
(* with n = 2, zero the digit 0 with n = 0.  Infinity and not-a-number     *)
(* hold the text inf and nan.  A decimal that rounds beyond the range of a *)
(* double is infinity and one that rounds to zero is zero, so a decimal    *)
(* with other digits stands for a finite double that is not zero.  The     *)
(* decimal itself is kept as written: two decimals of more than 15         *)
(* significant digits may stand for one double and differ here, and        *)
(* not-a-number is one value.                                              *)

JNull == [t |-> "null", n |-> 0, s |-> <<>>]
JBool(b) == [t |-> "bool", n |-> IF b THEN 1 ELSE 0, s |-> <<>>]
JInt(k) == [t |-> "int", n |-> k, s |-> <<>>]
JLong(negative, digits) ==
    [t |-> "int", n |-> IF negative THEN 0 - 1 ELSE 1, s |-> digits]
JFloat(digits, exp) == [t |-> "float", n |-> exp, s |-> digits]
JStr(text) == [t |-> "str", n |-> 0, s |-> text]

\* Python truthiness: None, False, 0, 0.0, -0.0 and "" are falsy.
Truthy(v) ==
    CASE v.t = "null"  -> FALSE
      [] v.t = "bool"  -> v.n # 0
      [] v.t = "int"   -> v.n # 0
      [] v.t = "float" -> v.s \notin {<<"0">>, <<"-", "0">>}
      [] v.t = "str"   -> v.s # <<>>

DigitSeq == <<"0", "1", "2", "3", "4", "5", "6", "7", "8", "9">>

DigitValue(c) == (CHOOSE i \in 1..10 : DigitSeq[i] = c) - 1

RECURSIVE DigitsValue(_)
\* The number a run of decimal digits writes.
DigitsValue(ds) ==
    IF ds = <<>> THEN 0
    ELSE 10 * DigitsValue(SubSeq(ds, 1, Len(ds) - 1)) + DigitValue(ds[Len(ds)])

RECURSIVE IntDigits(_)
\* The decimal digits of a natural number.
IntDigits(k) ==
    IF k < 10 THEN <<DigitSeq[k + 1]>>
    ELSE Append(IntDigits(k \div 10), DigitSeq[(k % 10) + 1])

\* The characters float() strips from both ends of a text.
Whitespace == {" ", "LF", "CR", "TAB", "FF", "VT"}

\* A text without the leading characters that are in cs.
DropLeading(text, cs) ==
    IF \A i \in 1..Len(text) : text[i] \in cs THEN <<>>
    ELSE SubSeq(text,
                CHOOSE i \in 1..Len(text) :
                    text[i] \notin cs /\ \A j \in 1..(i - 1) : text[j] \in cs,
                Len(text))

\* A text without the trailing characters that are in cs.
DropTrailing(text, cs) ==
    IF \A i \in 1..Len(text) : text[i] \in cs THEN <<>>
    ELSE SubSeq(text, 1,
                CHOOSE i \in 1..Len(text) :
                    text[i] \notin cs
                    /\ \A j \in (i + 1)..Len(text) : text[j] \in cs)

LStrip(text) == DropLeading(text, Whitespace)

RStrip(text) == DropTrailing(text, Whitespace)

\* str.strip()
Strip(text) == RStrip(LStrip(text))

\* The text has a leading sign.
Signed(text) == text # <<>> /\ text[1] \in {"+", "-"}

\* The text after an optional sign.
Unsigned(text) == IF Signed(text) THEN Tail(text) ELSE text

\* The first place of one of the characters cs in a text, 0 when none is.
FirstOf(u, cs) ==
    IF \E i \in 1..Len(u) : u[i] \in cs
    THEN CHOOSE i \in 1..Len(u) :
            u[i] \in cs /\ \A j \in 1..(i - 1) : u[j] \notin cs
    ELSE 0

\* A digit part of a numeral: digits, single underscores allowed between
\* two digits.
IsDigitPart(ds) ==
    /\ ds # <<>>
    /\ \A i \in 1..Len(ds) : ds[i] \in DecimalDigits \cup {"_"}
    /\ ds[1] # "_" /\ ds[Len(ds)] # "_"
    /\ \A i \in 1..(Len(ds) - 1) : ~(ds[i] = "_" /\ ds[i + 1] = "_")

\* The digits of a digit part.
OnlyDigits(ds) == SelectSeq(ds, LAMBDA c : c # "_")

\* The mantissa of a numeral before its exponent marker, and what follows
\* the marker.
MantissaOf(u) ==
    IF FirstOf(u, {"e", "E"}) = 0 THEN u
    ELSE SubSeq(u, 1, FirstOf(u, {"e", "E"}) - 1)
ExponentOf(u) == SubSeq(u, FirstOf(u, {"e", "E"}) + 1, Len(u))

\* The digit parts of a mantissa before and after its point.
IntPartOf(m) ==
    IF FirstOf(m, {"."}) = 0 THEN m ELSE SubSeq(m, 1, FirstOf(m, {"."}) - 1)
FracPartOf(m) ==
    IF FirstOf(m, {"."}) = 0 THEN <<>>
    ELSE SubSeq(m, FirstOf(m, {"."}) + 1, Len(m))

\* A mantissa: digits, digits with a point before, after or between them.
IsMantissa(m) ==
    /\ IntPartOf(m) = <<>> \/ IsDigitPart(IntPartOf(m))
    /\ FracPartOf(m) = <<>> \/ IsDigitPart(FracPartOf(m))
    /\ IntPartOf(m) # <<>> \/ FracPartOf(m) # <<>>

\* A mantissa float() can hold: at most 1000000000 digits after the
\* leading zeros, and at most 1000000000 digits after the point.
FitsDigits(m) ==
    LET whole == OnlyDigits(IntPartOf(m))
        frac == OnlyDigits(FracPartOf(m))
    IN  /\ Len(DropLeading(whole \o frac, {"0"})) <= 1000000000
        /\ Len(frac) <= 1000000000

\* The names float() reads as infinity and as not-a-number, in any case.
IsInfinityName(u) ==
    lower(u) \in {<<"i", "n", "f">>,
                  <<"i", "n", "f", "i", "n", "i", "t", "y">>}
IsNanName(u) == lower(u) = <<"n", "a", "n">>

\* float(text) accepts the text: after stripping whitespace, an optional
\* sign and then inf, infinity, nan, or a decimal numeral with an optional
\* exponent, of no more digits than float() holds.
IsNumeral(text) ==
    LET u == Unsigned(Strip(text))
    IN  \/ IsInfinityName(u)
        \/ IsNanName(u)
        \/ /\ IsMantissa(MantissaOf(u))
           /\ FitsDigits(MantissaOf(u))
           /\ FirstOf(u, {"e", "E"}) # 0 =>
                IsDigitPart(Unsigned(ExponentOf(u)))

DropLeadingZeros(ds) == DropLeading(ds, {"0"})

DropTrailingZeros(ds) == DropTrailing(ds, {"0"})

\* The digit at a place of a decimal fraction, 0 past its last digit.
DigitAt(ds, i) == IF i <= Len(ds) THEN ds[i] ELSE "0"

\* The decimal fraction 0.a is greater than the decimal fraction 0.b.
DigitsAbove(a, b) ==
    \E i \in 1..(Len(a) + Len(b)) :
        /\ DigitValue(DigitAt(a, i)) > DigitValue(DigitAt(b, i))
        /\ \A j \in 1..(i - 1) : DigitAt(a, j) = DigitAt(b, j)

\* The digits of 2^1024 - 2^970, half way between the largest double and
\* 2^1024: from this number on, rounding to the nearest double leaves the
\* range of a double.
OverflowDigits ==
    <<"1", "7", "9", "7", "6", "9", "3", "1", "3", "4", "8", "6", "2", "3",
      "1", "5", "8", "0", "7", "9", "3", "7", "2", "8", "9", "7", "1", "4",
      "0", "5", "3", "0", "3", "4", "1", "5", "0", "7", "9", "9", "3", "4",
      "1", "3", "2", "7", "1", "0", "0", "3", "7", "8", "2", "6", "9", "3",
      "6", "1", "7", "3", "7", "7", "8", "9", "8", "0", "4", "4", "4", "9",
      "6", "8", "2", "9", "2", "7", "6", "4", "7", "5", "0", "9", "4", "6",
      "6", "4", "9", "0", "1", "7", "9", "7", "7", "5", "8", "7", "2", "0",
      "7", "0", "9", "6", "3", "3", "0", "2", "8", "6", "4", "1", "6", "6",
      "9", "2", "8", "8", "7", "9", "1", "0", "9", "4", "6", "5", "5", "5",
      "5", "4", "7", "8", "5", "1", "9", "4", "0", "4", "0", "2", "6", "3",
      "0", "6", "5", "7", "4", "8", "8", "6", "7", "1", "5", "0", "5", "8",
      "2", "0", "6", "8", "1", "9", "0", "8", "9", "0", "2", "0", "0", "0",
      "7", "0", "8", "3", "8", "3", "6", "7", "6", "2", "7", "3", "8", "5",
      "4", "8", "4", "5", "8", "1", "7", "7", "1", "1", "5", "3", "1", "7",
      "6", "4", "4", "7", "5", "7", "3", "0", "2", "7", "0", "0", "6", "9",
      "8", "5", "5", "5", "7", "1", "3", "6", "6", "9", "5", "9", "6", "2",
      "2", "8", "4", "2", "9", "1", "4", "8", "1", "9", "8", "6", "0", "8",
      "3", "4", "9", "3", "6", "4", "7", "5", "2", "9", "2", "7", "1", "9",
      "0", "7", "4", "1", "6", "8", "4", "4", "4", "3", "6", "5", "5", "1",
      "0", "7", "0", "4", "3", "4", "2", "7", "1", "1", "5", "5", "9", "6",
      "9", "9", "5", "0", "8", "0", "9", "3", "0", "4", "2", "8", "8", "0",
      "1", "7", "7", "9", "0", "4", "1", "7", "4", "4", "9", "7", "7", "9",
      "2">>

\* The significant digits of 2^-1075, half the smallest double, which is
\* 0.<323 zeros><these digits>: down to this number, rounding to the
\* nearest double gives zero.
UnderflowDigits ==
    <<"2", "4", "7", "0", "3", "2", "8", "2", "2", "9", "2", "0", "6", "2",
      "3", "2", "7", "2", "0", "8", "8", "2", "8", "4", "3", "9", "6", "4",
      "3", "4", "1", "1", "0", "6", "8", "6", "1", "8", "2", "5", "2", "9",
      "9", "0", "1", "3", "0", "7", "1", "6", "2", "3", "8", "2", "2", "1",
      "2", "7", "9", "2", "8", "4", "1", "2", "5", "0", "3", "3", "7", "7",
      "5", "3", "6", "3", "5", "1", "0", "4", "3", "7", "5", "9", "3", "2",
      "6", "4", "9", "9", "1", "8", "1", "8", "0", "8", "1", "7", "9", "9",
      "6", "1", "8", "9", "8", "9", "8", "2", "8", "2", "3", "4", "7", "7",
      "2", "2", "8", "5", "8", "8", "6", "5", "4", "6", "3", "3", "2", "8",
      "3", "5", "5", "1", "7", "7", "9", "6", "9", "8", "9", "8", "1", "9",
      "9", "3", "8", "7", "3", "9", "8", "0", "0", "5", "3", "9", "0", "9",
      "3", "9", "0", "6", "3", "1", "5", "0", "3", "5", "6", "5", "9", "5",
      "1", "5", "5", "7", "0", "2", "2", "6", "3", "9", "2", "2", "9", "0",
      "8", "5", "8", "3", "9", "2", "4", "4", "9", "1", "0", "5", "1", "8",
      "4", "4", "3", "5", "9", "3", "1", "8", "0", "2", "8", "4", "9", "9",
      "3", "6", "5", "3", "6", "1", "5", "2", "5", "0", "0", "3", "1", "9",
      "3", "7", "0", "4", "5", "7", "6", "7", "8", "2", "4", "9", "2", "1",
      "9", "3", "6", "5", "6", "2", "3", "6", "6", "9", "8", "6", "3", "6",
      "5", "8", "4", "8", "0", "7", "5", "7", "0", "0", "1", "5", "8", "5",
      "7", "6", "9", "2", "6", "9", "9", "0", "3", "7", "0", "6", "3", "1",
      "1", "9", "2", "8", "2", "7", "9", "5", "5", "8", "5", "5", "1", "3",
      "3", "2", "9", "2", "7", "8", "3", "4", "3", "3", "8", "4", "0", "9",
      "3", "5", "1", "9", "7", "8", "0", "1", "5", "5", "3", "1", "2", "4",
      "6", "5", "9", "7", "2", "6", "3", "5", "7", "9", "5", "7", "4", "6",
      "2", "2", "7", "6", "6", "4", "6", "5", "2", "7", "2", "8", "2", "7",
      "2", "2", "0", "0", "5", "6", "3", "7", "4", "0", "0", "6", "4", "8",
      "5", "4", "9", "9", "9", "7", "7", "0", "9", "6", "5", "9", "9", "4",
      "7", "0", "4", "5", "4", "0", "2", "0", "8", "2", "8", "1", "6", "6",
      "2", "2", "6", "2", "3", "7", "8", "5", "7", "3", "9", "3", "4", "5",
      "0", "7", "3", "6", "3", "3", "9", "0", "0", "7", "9", "6", "7", "7",
      "6", "1", "9", "3", "0", "5", "7", "7", "5", "0", "6", "7", "4", "0",
      "1", "7", "6", "3", "2", "4", "6", "7", "3", "6", "0", "0", "9", "6",
      "8", "9", "5", "1", "3", "4", "0", "5", "3", "5", "5", "3", "7", "4",
      "5", "8", "5", "1", "6", "6", "6", "1", "1", "3", "4", "2", "2", "3",
      "7", "6", "6", "6", "7", "8", "6", "0", "4", "1", "6", "2", "1", "5",
      "9", "6", "8", "0", "4", "6", "1", "9", "1", "4", "4", "6", "7", "2",
      "9", "1", "8", "4", "0", "3", "0", "0", "5", "3", "0", "0", "5", "7",
      "5", "3", "0", "8", "4", "9", "0", "4", "8", "7", "6", "5", "3", "9",
      "1", "7", "1", "1", "3", "8", "6", "5", "9", "1", "6", "4", "6", "2",
      "3", "9", "5", "2", "4", "9", "1", "2", "6", "2", "3", "6", "5", "3",
      "8", "8", "1", "8", "7", "9", "6", "3", "6", "2", "3", "9", "3", "7",
      "3", "2", "8", "0", "4", "2", "3", "8", "9", "1", "0", "1", "8", "6",
      "7", "2", "3", "4", "8", "4", "9", "7", "6", "6", "8", "2", "3", "5",
      "0", "8", "9", "8", "6", "3", "3", "8", "8", "5", "8", "7", "9", "2",
      "5", "6", "2", "8", "3", "0", "2", "7", "5", "5", "9", "9", "5", "6",
      "5", "7", "5", "2", "4", "4", "5", "5", "5", "0", "7", "2", "5", "5",
      "1", "8", "9", "3", "1", "3", "6", "9", "0", "8", "3", "6", "2", "5",
      "4", "7", "7", "9", "1", "8", "6", "9", "4", "8", "6", "6", "7", "9",
      "9", "4", "9", "6", "8", "3", "2", "4", "0", "4", "9", "7", "0", "5",
      "8", "2", "1", "0", "2", "8", "5", "1", "3", "1", "8", "5", "4", "5",
      "1", "3", "9", "6", "2", "1", "3", "8", "3", "7", "7", "2", "2", "8",
      "2", "6", "1", "4", "5", "4", "3", "7", "6", "9", "3", "4", "1", "2",
      "5", "3", "2", "0", "9", "8", "5", "9", "1", "3", "2", "7", "6", "6",
      "7", "2", "3", "6", "3", "2", "8", "1", "2", "5">>

\* The number of the given digits times the given power of ten rounds
\* beyond the range of a double.
Overflows(ds, exp) ==
    LET lead == DropLeadingZeros(ds)
        top == exp + Len(lead) - 1
    IN  /\ lead # <<>>
        /\ top > 308 \/ (top = 308 /\ ~DigitsAbove(OverflowDigits, lead))

\* The value of an exponent's digits as float() reads it: the number they
\* write when it has at most 9 significant digits, and 1100000000 when it
\* has more.
ExponentValue(ds) ==
    LET d == DropLeadingZeros(OnlyDigits(ds))
    IN  IF Len(d) > 9 THEN 1100000000 ELSE DigitsValue(d)

\* The float with the given sign, digits and power of ten: zeros dropped,
\* infinity above the range of a double, zero below it.
MakeFloat(negative, ds, exp) ==
    LET lead == DropLeadingZeros(ds)
        sig == DropTrailingZeros(lead)
        e == exp + (Len(lead) - Len(sig))
        top == e + Len(sig) - 1
        minus == IF negative THEN <<"-">> ELSE <<>>
    IN  IF sig = <<>> THEN JFloat(minus \o <<"0">>, 0)
        ELSE IF Overflows(ds, exp)
        THEN JFloat(minus \o <<"i", "n", "f">>, 0)
        ELSE IF top < 0 - 324
                \/ (top = 0 - 324 /\ ~DigitsAbove(sig, UnderflowDigits))
        THEN JFloat(minus \o <<"0">>, 0)
        ELSE JFloat(minus \o sig, e)

\* float(text) of a text float() accepts.
ParseFloat(text) ==
    LET t == Strip(text)
        u == Unsigned(t)
        negative == Signed(t) /\ t[1] = "-"
        m == MantissaOf(u)
        x == ExponentOf(u)
        frac == OnlyDigits(FracPartOf(m))
        e == IF FirstOf(u, {"e", "E"}) = 0 THEN 0
             ELSE IF Signed(x) /\ x[1] = "-"
             THEN 0 - ExponentValue(Unsigned(x))
             ELSE ExponentValue(Unsigned(x))
    IN  IF IsInfinityName(u)
        THEN JFloat((IF negative THEN <<"-">> ELSE <<>>) \o <<"i", "n", "f">>,
                    0)
        ELSE IF IsNanName(u) THEN JFloat(<<"n", "a", "n">>, 0)
        ELSE MakeFloat(negative, OnlyDigits(IntPartOf(m)) \o frac,
                       e - Len(frac))

\* The decimal digits of the magnitude of an int.
IntDigitsOf(v) ==
    IF v.s # <<>> THEN v.s ELSE IntDigits(IF v.n < 0 THEN 0 - v.n ELSE v.n)

\* float(v) raises instead of returning: None, text that is no numeral,
\* and an int that rounds beyond the range of a double.
FloatRaises(v) ==
    \/ v.t = "null"
    \/ v.t = "str" /\ ~IsNumeral(v.s)
    \/ v.t = "int" /\ Overflows(IntDigitsOf(v), 0)

\* What float(v) raises when it raises.  The messages of the TypeError
\* and of the ValueError quote the value and are left out.
FloatError(v) ==
    CASE v.t = "null" -> Raise("TypeError", <<>>)
      [] v.t = "str"  -> Raise("ValueError", <<>>)
      [] v.t = "int"  ->
            Raise("OverflowError", <<"int too large to convert to float">>)

\* float(v)
float(v) ==
    CASE v.t = "bool"  -> MakeFloat(FALSE, IntDigits(v.n), 0)
      [] v.t = "int"   -> MakeFloat(v.n < 0, IntDigitsOf(v), 0)
      [] v.t = "float" -> v
      [] v.t = "str"   -> ParseFloat(v.s)

-----------------------------------------------------------------------------
(* Responses of the transport and their parsing.                           *)

\* Location(words, (latitude, longitude), resource)
Location(words, pt, raw) == [label |-> words, point |-> pt, raw |-> raw]

Returned(loc) == [kind |-> "Location", exc |-> "", msg |-> <<>>,
                  loc |-> loc, items |-> <<>>]
ReturnedList(locs) == [kind |-> "list", exc |-> "", msg |-> <<>>,
                       loc |-> NoLoc, items |-> locs]

\* parse_resource, the inner function of What3Words._parse_json
parse_resource(resource) ==
    IF resource.has_geometry
    THEN LET words == resource.words
             latitude == resource.lat
             longitude == resource.lng
         IN  IF Truthy(latitude) /\ Truthy(longitude)
             THEN IF FloatRaises(latitude) THEN FloatError(latitude)
                  ELSE IF FloatRaises(longitude) THEN FloatError(longitude)
                  ELSE Returned(Location(words,
                                   <<float(latitude), float(longitude)>>,
                                   resource))
             ELSE Returned(Location(words, <<latitude, longitude>>, resource))
    ELSE Raise("GeocoderParseError", <<"Error parsing result.">>)

\* resources['status'].get('code'): None when the status has no code.
status_code(resources) ==
    IF resources.status.has_code THEN JInt(resources.status.code) ELSE JNull

\* A _parse_json that maps every error code, 401 included, to a query error.
_parse_json_no_auth(resources, want_one) ==
    IF ~resources.status.present
    THEN Raise("KeyError", <<"status">>)
    ELSE LET code == status_code(resources)
         IN  IF Truthy(code)
             THEN Raise("GeocoderQueryError",
                        <<"Error returned by What3Words: ",
                          resources.status.message>>)
             ELSE LET location == parse_resource(resources)
                  IN  IF location.kind = "raise" THEN location
                      ELSE IF want_one THEN location
                      ELSE ReturnedList(<<location.loc>>)

\* A _parse_json that forgets the exactly_one flag and never wraps.
_parse_json_never_wraps(resources, want_one) ==
    IF ~resources.status.present
    THEN Raise("KeyError", <<"status">>)
    ELSE LET code == status_code(resources)
         IN  IF Truthy(code)
             THEN LET exc_msg == <<"Error returned by What3Words: ",
                                   resources.status.message>>
                  IN  IF code = JInt(401)
                      THEN Raise("GeocoderAuthenticationFailure", exc_msg)
                      ELSE Raise("GeocoderQueryError", exc_msg)
             ELSE parse_resource(resources)

\* What3Words._parse_json
_parse_json(resources, want_one) ==
    IF ~resources.status.present
    THEN Raise("KeyError", <<"status">>)
    ELSE LET code == status_code(resources)
         IN  IF Truthy(code)
             THEN LET exc_msg == <<"Error returned by What3Words: ",
                                   resources.status.message>>
                  IN  IF code = JInt(401)
                      THEN Raise("GeocoderAuthenticationFailure", exc_msg)
                      ELSE Raise("GeocoderQueryError", exc_msg)
             ELSE LET location == parse_resource(resources)
                  IN  IF location.kind = "raise" THEN location
                      ELSE IF want_one THEN location
                      ELSE ReturnedList(<<location.loc>>)

\* What3Words._parse_reverse_json
_parse_reverse_json(resources, want_one) == _parse_json(resources, want_one)

-----------------------------------------------------------------------------
(* The inputs of the calls and the replies of the transport.               *)

Messages == {"Invalid key", "Bad coordinates"}

\* Non-zero status codes: 401 and another one.
ErrorCodes == {3, 401}

\* The top-level status field: absent, without a code, code 0, error codes.
\* A status that carries a code carries a message, as the API sends it.
Statuses ==
    {NoStatus,
     [present |-> TRUE, has_code |-> FALSE, code |-> 0, message |-> "OK"],
     [present |-> TRUE, has_code |-> TRUE, code |-> 0, message |-> "OK"]}
    \cup {[present |-> TRUE, has_code |-> TRUE, code |-> c, message |-> m] :
            c \in ErrorCodes, m \in Messages}

\* The int 10^309, which no double holds.
TooLargeInt == JLong(FALSE, <<"1">> \o [i \in 1..309 |-> "0"])

\* Values of lat and lng: null, a bool, numbers and text, zero and
\* non-zero, and two that float() refuses: a text that is no numeral and
\* an int beyond the range of a double.
JValues == {JNull, JBool(TRUE), JInt(0), JInt(5), JFloat(<<"0">>, 0),
            JFloat(<<"5", "1", "5">>, 0 - 1),
            JStr(<<>>), JStr(<<"0">>), JStr(<<"-", "0", ".", "2">>),
            JStr(<<" ", ".", "5", "e", "1">>), JStr(<<"x">>), TooLargeInt}

\* The words field of a body; every body here has one, and a geometry has
\* both lat and lng.
WordsValues == {<<"k", ".", "e", ".", "n">>}

Responses ==
    {[status |-> st, words |-> w, has_geometry |-> FALSE,
      lat |-> NoJV, lng |-> NoJV] : st \in Statuses, w \in WordsValues}
    \cup {[status |-> st, words |-> w, has_geometry |-> TRUE,
           lat |-> la, lng |-> lo] :
            st \in Statuses, w \in WordsValues, la \in JValues, lo \in JValues}

\* A reply of the transport: parsed JSON, or a transport condition raised.
NoReply == [raises |-> FALSE, exc |-> "", msg |-> <<>>, json |-> NoJson]
TransportErrors ==
    {[raises |-> TRUE, exc |-> "GeocoderTimedOut",
      msg |-> <<"Service timed out">>, json |-> NoJson],
     [raises |-> TRUE, exc |-> "GeocoderUnavailable",
      msg |-> <<"Service not available">>, json |-> NoJson]}
Replies == TransportErrors \cup
           {[raises |-> FALSE, exc |-> "", msg |-> <<>>, json |-> j] :
              j \in Responses}

\* The transport replies only when it is called.
RepliesIf(called) == IF called THEN Replies ELSE {NoReply}

\* Phrases handed to geocode.
Queries ==
    {<<"a", ".", "b", ".", "c">>,
     <<"a", ".", "b", ".", "c", "LF">>,
     <<"e'", ".", "b", ".", "c">>,
     <<"a", "^2", ".", "b", ".", "c">>,
     <<"a", " ", "b", " ", "c">>,
     <<"a", ".", "b">>,
     <<"a", "1", ".", "b", ".", "c">>,
     <<"a", ".", "b", ".", "c", ".", "e">>}

Languages == {<<"e", "n">>, <<"E", "N">>}

\* Points handed to reverse: two that the coordinate collaborator accepts,
\* given by the text it writes for each coordinate, and one it refuses.
NoPoint == [ok |-> FALSE, lat |-> <<>>, lng |-> <<>>]
Points ==
    {[ok |-> TRUE, lat |-> <<"5", "1", ".", "5">>,
      lng |-> <<"-", "0", ".", "2">>],
     [ok |-> TRUE, lat |-> <<"0", ".", "0">>, lng |-> <<"0", ".", "0">>],
     NoPoint}

\* Geocoder._coerce_point_to_string: the canonical "lat,lng" text.
_coerce_point_to_string(p) == p.lat \o <<",">> \o p.lng

\* The characters typed in SpecQ.
Alphabet == {"a", "1", "_", ".", " ", "LF"}

-----------------------------------------------------------------------------
(* The two lookups.                                                        *)

\* A params mapping of geocode with the key put first.
geocode_params_key_first(q, l, key) ==
    << <<"key", str(key)>>, <<"addr", q>>, <<"lang", lower(l)>> >>

\* The params mapping of What3Words.geocode, in insertion order.
geocode_params(q, l, key) ==
    << <<"addr", q>>, <<"lang", lower(l)>>, <<"key", str(key)>> >>

\* The params mapping of What3Words.reverse, in insertion order.
reverse_params(p, l, key) ==
    << <<"coords", _coerce_point_to_string(p)>>,
       <<"lang", lower(lower(l))>>, <<"key", str(key)>> >>

\* "?".join((api, urlencode(params)))
join_url(api, params) == api \o <<"?">> \o urlencode(params)

\* A dispatch that calls the transport a second time when it raises.
geocode_dispatch_retry(url, r, want_one) ==
    [sent |-> IF r.raises THEN <<url, url>> ELSE <<url>>,
     outcome |-> IF r.raises THEN Raise(r.exc, r.msg)
                 ELSE _parse_json(r.json, want_one)]

\* return self._parse_json(self._call_geocoder(url, ...), exactly_one):
\* the transport is handed the URL once; what it raises reaches the caller,
\* what it returns is parsed.
geocode_dispatch(url, r, want_one) ==
    [sent |-> <<url>>,
     outcome |-> IF r.raises THEN Raise(r.exc, r.msg)
                 ELSE _parse_json(r.json, want_one)]

\* return self._parse_reverse_json(self._call_geocoder(url, ...), exactly_one)
reverse_dispatch(url, r, want_one) ==
    [sent |-> <<url>>,
     outcome |-> IF r.raises THEN Raise(r.exc, r.msg)
                 ELSE _parse_reverse_json(r.json, want_one)]

\* What3Words.geocode
geocode_call(c, q, l, want_one, r) ==
    IF ~_check_query(q)
    THEN [valid |-> "rejected", sent |-> <<>>, reply |-> NoReply,
          outcome |-> Raise("GeocoderQueryError",
                            <<"Search string must be 'word.word.word'">>)]
    ELSE LET url == join_url(c.geocode_api, geocode_params(q, l, c.api_key))
             d == geocode_dispatch(url, r, want_one)
         IN  [valid |-> "accepted", sent |-> d.sent, reply |-> r,
              outcome |-> d.outcome]

\* What3Words.reverse
reverse_call(c, p, l, want_one, r) ==
    IF ~p.ok
    THEN [valid |-> "rejected", sent |-> <<>>, reply |-> NoReply,
          outcome |-> Raise("ValueError", <<>>)]
    ELSE LET url == join_url(c.reverse_api, reverse_params(p, l, c.api_key))
             d == reverse_dispatch(url, r, want_one)
         IN  [valid |-> "accepted", sent |-> d.sent, reply |-> r,
              outcome |-> d.outcome]

-----------------------------------------------------------------------------
(* The state machine: a caller constructs a client and then calls geocode  *)
(* and reverse, one call at a time.                                        *)

Init ==
    /\ client = NoClient
    /\ op = "idle"
    /\ arg_key = NoneKey
    /\ arg_base_ok = TRUE
    /\ query = <<>>
    /\ point = NoPoint
    /\ lang = <<>>
    /\ exactly_one = TRUE
    /\ valid = "unchecked"
    /\ sent = <<>>
    /\ reply = NoReply
    /\ outcome = NoOutcome

\* A call starts when the caller holds no call in progress.
Idle == op = "idle"

\* What3Words(api_key, ...), the base constructor accepting the transport
\* settings or not
Construct ==
    /\ Idle /\ ~client.exists
    /\ \E api_key \in Keys, base_ok \in BOOLEAN :
         \E res \in {construct(api_key, base_ok)} :
           /\ op' = "__init__"
           /\ arg_key' = api_key /\ arg_base_ok' = base_ok
           /\ client' = res.client
           /\ outcome' = res.outcome
    /\ UNCHANGED <<query, point, lang, exactly_one, valid, sent, reply>>

\* client.geocode(q, lang=l, exactly_one=w), the transport, when it is
\* called, replying r
Geocode ==
    /\ Idle /\ client.exists
    /\ \E q \in Queries, l \in Languages, w \in BOOLEAN :
         \E r \in RepliesIf(_check_query(q)) :
           \E res \in {geocode_call(client, q, l, w, r)} :
             /\ op' = "geocode"
             /\ query' = q /\ lang' = l /\ exactly_one' = w
             /\ valid' = res.valid
             /\ sent' = res.sent
             /\ reply' = res.reply
             /\ outcome' = res.outcome
    /\ UNCHANGED <<client, arg_key, arg_base_ok, point>>

\* client.reverse(p, lang=l, exactly_one=w), the transport, when it is
\* called, replying r
Reverse ==
    /\ Idle /\ client.exists
    /\ \E p \in Points, l \in Languages, w \in BOOLEAN :
         \E r \in RepliesIf(p.ok) :
           \E res \in {reverse_call(client, p, l, w, r)} :
             /\ op' = "reverse"
             /\ point' = p /\ lang' = l /\ exactly_one' = w
             /\ valid' = res.valid
             /\ sent' = res.sent
             /\ reply' = res.reply
             /\ outcome' = res.outcome
    /\ UNCHANGED <<client, arg_key, arg_base_ok, query>>

\* The call has returned or raised; the caller goes on.
Return ==
    /\ ~Idle
    /\ op' = "idle"
    /\ query' = <<>> /\ point' = NoPoint /\ lang' = <<>>
    /\ exactly_one' = TRUE /\ valid' = "unchecked"
    /\ sent' = <<>> /\ reply' = NoReply /\ outcome' = NoOutcome
    /\ UNCHANGED <<client, arg_key, arg_base_ok>>

Next == Construct \/ Reverse \/ Geocode \/ Return

Spec == Init /\ [][Next]_vars

-----------------------------------------------------------------------------
(* The validation alone: a phrase is typed character by character and      *)
(* _check_query is applied to it.                                          *)

InitQ ==
    /\ client = construct(SomeKey, TRUE).client
    /\ op = "idle"
    /\ arg_key = SomeKey
    /\ arg_base_ok = TRUE
    /\ query = <<>>
    /\ point = NoPoint
    /\ lang = <<>>
    /\ exactly_one = TRUE
    /\ valid = "unchecked"
    /\ sent = <<>>
    /\ reply = NoReply
    /\ outcome = NoOutcome

TypeChar(c) ==
    /\ valid = "unchecked" /\ Len(query) < MaxQueryLen
    /\ query' = Append(query, c)
    /\ UNCHANGED <<client, op, arg_key, arg_base_ok, point, lang, exactly_one,
                   valid, sent, reply, outcome>>

\* client._check_query(query)
CheckQuery ==
    /\ valid = "unchecked"
    /\ valid' = IF _check_query(query) THEN "accepted" ELSE "rejected"
    /\ UNCHANGED <<client, op, arg_key, arg_base_ok, query, point, lang,
                   exactly_one, sent, reply, outcome>>

NextQ == (\E c \in Alphabet : TypeChar(c)) \/ CheckQuery

SpecQ == InitQ /\ [][NextQ]_vars

-----------------------------------------------------------------------------
(* Properties.                                                             *)

\* A lookup was made and its input passed the validation.
Called == op \in {"geocode", "reverse"} /\ valid = "accepted"

\* The transport was called and returned a parsed body.
GotJson == Called /\ ~reply.raises

\* The status of a body carries a non-zero error code.
HasErrorCode(j) == j.status.present /\ j.status.has_code /\ j.status.code # 0

\* The Location a successful call delivered, alone or in its list.
Delivered == IF outcome.kind = "list" THEN outcome.items[1] ELSE outcome.loc

Succeeded == outcome.kind \in {"Location", "list"}

\* The word.word.word shape as the specification words it: the whole text
\* is three non-empty groups of letters separated by two single dots.
LetterRun(s, i, j) == i <= j /\ \A x \in i..j : s[x] \in Letters
ThreeWordShape(s) ==
    \E i \in 1..Len(s) : \E j \in 1..Len(s) :
        /\ LetterRun(s, 1, i)
        /\ i + 1 <= Len(s) /\ s[i + 1] = "."
        /\ LetterRun(s, i + 2, j)
        /\ j + 1 <= Len(s) /\ s[j + 1] = "."
        /\ LetterRun(s, j + 2, Len(s))

\* C1: for every phrase that does not have the word.word.word shape,
\* geocode fails with a query error and the transport is called zero times.
C1_RejectedWithoutTransport ==
    (op = "geocode" /\ ~ThreeWordShape(query)) =>
        /\ outcome.kind = "raise"
        /\ outcome.exc = "GeocoderQueryError"
        /\ sent = <<>>

\* C2: for every body whose status carries a non-zero error code, geocode
\* and reverse fail and deliver no Location, whatever else the body holds:
\* code 401 gives an authentication failure, every other non-zero code a
\* query error, and the condition carries the message the API supplied.
C2_ErrorCodeMapping ==
    (GotJson /\ HasErrorCode(reply.json)) =>
        /\ outcome.kind = "raise"
        /\ outcome.loc = NoLoc /\ outcome.items = <<>>
        /\ outcome.exc = IF reply.json.status.code = 401
                         THEN "GeocoderAuthenticationFailure"
                         ELSE "GeocoderQueryError"
        /\ Len(outcome.msg) = 2
        /\ outcome.msg[2] = reply.json.status.message

\* C2 witness: geocode got code 401 in a body that also holds a geometry.
C2_Witness ==
    /\ op = "geocode" /\ GotJson
    /\ reply.json.status.code = 401 /\ reply.json.status.has_code
    /\ reply.json.status.message = "Invalid key"
    /\ reply.json.has_geometry /\ Truthy(reply.json.lat)
    /\ outcome.exc = "GeocoderAuthenticationFailure"
    /\ outcome.msg = <<"Error returned by What3Words: ", "Invalid key">>

\* C3: for every body with words and a geometry holding lat and lng and no
\* status field at all, geocode and reverse deliver a Location whose label
\* is the words value and whose point is (lat, lng): the absent status does
\* not make the call fail.
C3_NoStatusStillParses ==
    (GotJson /\ ~reply.json.status.present /\ reply.json.has_geometry) =>
        /\ Succeeded
        /\ Delivered.label = reply.json.words
        /\ Delivered.point \in {<<reply.json.lat, reply.json.lng>>,
                                <<float(reply.json.lat), float(reply.json.lng)>>}

\* C4: _check_query accepts a text if and only if the whole text is three
\* non-empty groups of letters separated by two single dots; a digit or an
\* underscore in a group, a missing dot, another number of groups or any
\* whitespace, a trailing newline included, makes it reject.
C4_AcceptsExactlyTheShape ==
    valid # "unchecked" => ((valid = "accepted") <=> ThreeWordShape(query))

\* C5: for every body that carries no non-zero error code and has no
\* geometry, geocode and reverse fail with the parse error "Error parsing
\* result", whatever the exactly_one flag.
C5_NoGeometryIsParseError ==
    (GotJson /\ ~HasErrorCode(reply.json) /\ ~reply.json.has_geometry) =>
        /\ outcome.kind = "raise"
        /\ outcome.exc = "GeocoderParseError"

\* The key is missing: None or empty.
KeyMissing(key) == key.none \/ key.s = <<>>

\* C6: constructing with a missing or empty key fails with a
\* configuration error, so no client ever holds an empty key.
C6_EmptyKeyRefused ==
    /\ (op = "__init__" /\ KeyMissing(arg_key)) =>
          (outcome.kind = "raise" /\ outcome.exc = "ConfigurationError")
    /\ client.exists => ~KeyMissing(client.api_key)

\* A parameter value as it stands, or as quote_plus writes it.
Value(quoted, s) == IF quoted THEN quote_plus(s) ELSE s

\* The URL of a lookup, every value written verbatim or quoted.
UrlWith(quoted) ==
    IF op = "geocode"
    THEN <<"https", "://", "api.what3words.com", "/v2/forward", "?">>
         \o <<"addr", "=">> \o Value(quoted, query)
         \o <<"&", "lang", "=">> \o Value(quoted, lower(lang))
         \o <<"&", "key", "=">> \o Value(quoted, str(client.api_key))
    ELSE <<"https", "://", "api.what3words.com", "/v2/reverse", "?">>
         \o <<"coords", "=">> \o Value(quoted, point.lat \o <<",">> \o point.lng)
         \o <<"&", "lang", "=">> \o Value(quoted, lower(lang))
         \o <<"&", "key", "=">> \o Value(quoted, str(client.api_key))

\* C7 as stated: the URL handed to the transport is the endpoint, "?" and
\* addr, lang, key (geocode) or coords, lang, key (reverse) in that order,
\* the coords value appearing as the text lat,lng with its comma.
C7_UrlVerbatim == Called => sent = <<UrlWith(FALSE)>>

\* C7 amended: the same endpoints, parameters and order, every value
\* percent-encoded by urlencode: the comma of coords is sent as %2C, and
\* any other character outside ASCII letters, digits and _.-~ is escaped
\* (a space as +).
C7_UrlEncoded == Called => sent = <<UrlWith(TRUE)>>

\* C7 witness: reverse((51.5, -0.2), lang="EN") with the key k&1.
C7_Witness ==
    /\ op = "reverse"
    /\ sent = << <<"https", "://", "api.what3words.com", "/v2/reverse", "?",
                   "coords", "=", "5", "1", ".", "5", "%2C", "-", "0", ".",
                   "2", "&", "lang", "=", "e", "n", "&", "key", "=", "k",
                   "%26", "1">> >>

\* C8: for the same body, a call with exactly_one false delivers a list of
\* exactly one element, the Location the call with exactly_one true
\* delivers directly; the flag changes neither whether the call fails nor
\* the condition it raises.
C8_FlagOnlyWraps ==
    (GotJson /\ ~exactly_one) =>
        LET one == IF op = "geocode" THEN _parse_json(reply.json, TRUE)
                   ELSE _parse_reverse_json(reply.json, TRUE)
        IN  /\ (outcome.kind = "raise") <=> (one.kind = "raise")
            /\ one.kind = "raise" => outcome = one
            /\ one.kind # "raise" =>
                  /\ one.kind = "Location"
                  /\ outcome.kind = "list"
                  /\ Len(outcome.items) = 1
                  /\ outcome.items[1] = one.loc

\* C8 witness: reverse with exactly_one false delivered a one-element list.
C8_Witness ==
    /\ op = "reverse" /\ GotJson /\ ~exactly_one
    /\ outcome.kind = "list" /\ Len(outcome.items) = 1
    /\ outcome.items[1].label = reply.json.words

\* C9: every geocode or reverse call hands the transport at most one
\* request, exactly one when the input passes validation; when the
\* transport raises, that condition reaches the caller unchanged, there is
\* no second request and no Location is delivered.
C9_OneExchangeNoRetry ==
    op \in {"geocode", "reverse"} =>
        /\ Len(sent) <= 1
        /\ (IF op = "geocode" THEN _check_query(query) ELSE point.ok)
              => Len(sent) = 1
        /\ (Len(sent) >= 1 /\ reply.raises) =>
              /\ outcome = Raise(reply.exc, reply.msg)
              /\ ~Succeeded

\* C9 witness: the transport timed out under geocode.
C9_Witness ==
    /\ op = "geocode" /\ Len(sent) = 1 /\ reply.raises
    /\ reply.exc = "GeocoderTimedOut"
    /\ outcome.kind = "raise" /\ outcome.exc = "GeocoderTimedOut"

\* C10: when a body that carries no non-zero error code has a geometry,
\* lat and lng are converted to floating point if and only if both are
\* truthy: then the Location holds the two floats, unless float() refuses
\* one of them and the call raises what float() raised.  If either is
\* falsy neither is converted, both reach the Location as the decoder
\* delivered them, and the call still succeeds.
C10_CoerceOnlyIfBothTruthy ==
    (GotJson /\ ~HasErrorCode(reply.json) /\ reply.json.has_geometry) =>
        LET la == reply.json.lat
            lo == reply.json.lng
        IN  IF Truthy(la) /\ Truthy(lo)
            THEN IF FloatRaises(la) \/ FloatRaises(lo)
                 THEN /\ outcome.kind = "raise"
                      /\ outcome.exc \in {"ValueError", "OverflowError"}
                 ELSE /\ Succeeded
                      /\ Delivered.point = <<float(la), float(lo)>>
                      /\ Delivered.point[1].t = "float"
                      /\ Delivered.point[2].t = "float"
            ELSE /\ Succeeded
                 /\ Delivered.point = <<la, lo>>

====
